---- MODULE Spec2Model ----
(***************************************************************************)
(* Marketing Performance Analyzer (src/analyzer.py): the pipeline of       *)
(* main() - load, calculate_metrics, rank_campaigns, summary,              *)
(* generate_recommendations, create_visualization, to_csv - as a state     *)
(* machine over one input file.                                            *)
(*                                                                         *)
(* Numbers.  A float64 value is modelled as an extended rational           *)
(*   [k |-> "num", n |-> numerator, d |-> denominator > 0]                 *)
(* or as inf / -inf / nan.  The metric columns are rounded to 2 decimals   *)
(* by the code and are kept in hundredths (d = 100).                       *)
(***************************************************************************)
EXTENDS Integers, Sequences, FiniteSets

VARIABLES
    file,          \* the input: sample_data.csv as found on disk
    pc,            \* position of main()
    df,            \* main's df          (after load_campaign_data)
    df_metrics,    \* main's df_metrics  (after calculate_metrics)
    df_ranked,     \* main's df_ranked   (after rank_campaigns)
    report,        \* what generate_recommendations has printed so far
    chart,         \* the dashboard png has been written
    results_file,  \* campaign_analysis_results.csv has been written
    err,           \* how the process ended abnormally, "none" otherwise
    entered        \* the pipeline functions that have been called

vars == <<file, pc, df, df_metrics, df_ranked, report, chart, results_file,
          err, entered>>

-----------------------------------------------------------------------------
(* Bounds of the model *)

MaxRows == 4
MaxWideRows == 2

(* Program constants *)

avg_order_value == 50
HeadTail == 3

-----------------------------------------------------------------------------
(* float64 values *)

Num(n, d) == [k |-> "num", n |-> n, d |-> d]
NaN == [k |-> "nan", n |-> 0, d |-> 1]
Inf == [k |-> "inf", n |-> 0, d |-> 1]
NegInf == [k |-> "ninf", n |-> 0, d |-> 1]

IsNaN(x) == x.k = "nan"
IsNum(x) == x.k = "num"

Ord(x) == IF x.k = "ninf" THEN -1 ELSE IF x.k = "inf" THEN 1 ELSE 0

\* IEEE comparisons: every comparison with nan is False
Lt(x, y) ==
    /\ ~IsNaN(x)
    /\ ~IsNaN(y)
    /\ \/ Ord(x) < Ord(y)
       \/ IsNum(x) /\ IsNum(y) /\ x.n * y.d < y.n * x.d

Gt(x, y) == Lt(y, x)

Eq(x, y) ==
    /\ ~IsNaN(x)
    /\ ~IsNaN(y)
    /\ Ord(x) = Ord(y)
    /\ (IsNum(x) => x.n * y.d = y.n * x.d)

Neg(x) ==
    CASE x.k = "num" -> Num(-x.n, x.d)
      [] x.k = "inf" -> NegInf
      [] x.k = "ninf" -> Inf
      [] OTHER -> NaN

RECURSIVE GCD(_, _)
GCD(a, b) == IF b = 0 THEN a ELSE GCD(b, a % b)

Abs(a) == IF a < 0 THEN -a ELSE a

\* the rational n / d in lowest terms
Norm(n, d) == LET g == GCD(Abs(n), d) IN Num(n \div g, d \div g)

Add(x, y) ==
    CASE IsNaN(x) \/ IsNaN(y) -> NaN
      [] IsNum(x) /\ IsNum(y) -> Norm(x.n * y.d + y.n * x.d, x.d * y.d)
      [] IsNum(x) -> y
      [] IsNum(y) -> x
      [] x.k = y.k -> x
      [] OTHER -> NaN

Sub(x, y) == Add(x, Neg(y))

\* x * (p / q) for a rational 0 <= p/q; inf * 0 is nan
Scale(x, p, q) ==
    CASE IsNaN(x) -> NaN
      [] IsNum(x) -> Norm(x.n * p, x.d * q)
      [] p = 0 -> NaN
      [] OTHER -> x

\* a / b where every division by zero gives nan
Div_zero_is_nan(a, b) ==
    IF b # 0 THEN (IF b > 0 THEN Num(a, b) ELSE Num(-a, -b)) ELSE NaN

\* a / b on integer columns: x/0 is inf, -x/0 is -inf, 0/0 is nan
Div(a, b) ==
    IF b # 0 THEN (IF b > 0 THEN Num(a, b) ELSE Num(-a, -b))
    ELSE IF a > 0 THEN Inf
    ELSE IF a < 0 THEN NegInf
    ELSE NaN

-----------------------------------------------------------------------------
(* binary64 arithmetic.  Num(n, d) stands for the float64 nearest to n / d:  *)
(* the quotient of two integer columns, or a metric rounded to 2 decimals.   *)
(* A product by 100 is not of that form; it is kept as sign, 53-bit          *)
(* significand m and exponent e, the value being m * 2^e.  Significands are  *)
(* natural numbers held as sequences of limbs, least significant first.      *)

Limb == 32768

RECURSIVE Big(_)
Big(n) == IF n = 0 THEN <<>> ELSE <<n % Limb>> \o Big(n \div Limb)

RECURSIVE ToInt(_)
ToInt(N) == IF N = <<>> THEN 0 ELSE N[1] + Limb * ToInt(Tail(N))

IsZero(N) == \A i \in 1..Len(N) : N[i] = 0

Odd(N) == N # <<>> /\ N[1] % 2 = 1

\* N * m + a, for m <= Limb
RECURSIVE MulAdd(_, _, _)
MulAdd(N, m, a) ==
    IF N = <<>> THEN Big(a)
    ELSE LET t == N[1] * m + a
         IN  <<t % Limb>> \o MulAdd(Tail(N), m, t \div Limb)

\* quotient and remainder of N by m, for m <= Limb
RECURSIVE DivMod(_, _)
DivMod(N, m) ==
    IF N = <<>> THEN [q |-> <<>>, r |-> 0]
    ELSE LET hi == DivMod(Tail(N), m)
             t == hi.r * Limb + N[1]
         IN  [q |-> <<t \div m>> \o hi.q, r |-> t % m]

\* N div 2^k, and whether a bit was shifted out
RECURSIVE Shr(_, _)
Shr(N, k) ==
    IF k = 0 THEN [q |-> N, sticky |-> FALSE]
    ELSE LET c == IF k > 15 THEN 15 ELSE k
             dm == DivMod(N, 2 ^ c)
             rest == Shr(dm.q, k - c)
         IN  [q |-> rest.q, sticky |-> rest.sticky \/ dm.r # 0]

\* N / 2^k rounded to the nearest integer, ties to even (k >= 1)
RoundShift(N, k) ==
    LET s == Shr(N, k - 1)
        half == DivMod(s.q, 2)
    IN  IF half.r = 1 /\ (s.sticky \/ Odd(half.q))
        THEN MulAdd(half.q, 1, 1) ELSE half.q

\* a significand that rounding has carried to 2^53 is renormalised
Renormalise(neg, m, e) ==
    IF IsZero(Shr(m, 53).q) THEN [k |-> "f64", neg |-> neg, m |-> m, e |-> e]
    ELSE [k |-> "f64", neg |-> neg, m |-> DivMod(m, 2).q, e |-> e + 1]

RECURSIVE BitLength(_)
BitLength(n) == IF n = 0 THEN 0 ELSE 1 + BitLength(n \div 2)

\* the z with d <= p * 2^z < 2 * d, for 0 < p < d
RECURSIVE LeadingZeros(_, _)
LeadingZeros(p, d) == IF p >= d THEN 0 ELSE 1 + LeadingZeros(2 * p, d)

\* long division: k more bits of the quotient, 9 at a time
RECURSIVE QuotientBits(_, _, _, _)
QuotientBits(M, r, d, k) ==
    IF k = 0 THEN [m |-> M, r |-> r]
    ELSE LET c == IF k > 9 THEN 9 ELSE k
             t == r * 2 ^ c
         IN  QuotientBits(MulAdd(M, 2 ^ c, t \div d), t % d, d, k - c)

\* true_divide: the float64 nearest to p / d, for p > 0 and d > 0
Quotient(neg, p, d) ==
    LET z == LeadingZeros(p, d)
        q0 == IF p >= d THEN p \div d ELSE 1
        r0 == IF p >= d THEN p % d ELSE p * 2 ^ z - d
        nb == BitLength(q0)
        E == IF p >= d THEN nb - 1 ELSE -z
        Q == QuotientBits(Big(q0), r0, d, 53 - nb)
        up == 2 * Q.r > d \/ (2 * Q.r = d /\ Odd(Q.m))
    IN  Renormalise(neg, IF up THEN MulAdd(Q.m, 1, 1) ELSE Q.m, E - 52)

IsFinite(x) == x.k \in {"num", "f64"}

Zero == [k |-> "f64", neg |-> FALSE, m |-> <<>>, e |-> 0]

\* the float64 that a value stands for
Float(x) ==
    IF x.k = "f64" THEN x
    ELSE IF x.n = 0 THEN Zero
    ELSE Quotient(x.n < 0, Abs(x.n), x.d)

\* x * 100 in float64: the exact product rounded to 53 bits
Times100(x) ==
    IF ~IsFinite(x) THEN x
    ELSE LET b == Float(x)
             P == MulAdd(b.m, 100, 0)
             g == IF IsZero(Shr(P, 59).q) THEN 6 ELSE 7
         IN  IF IsZero(b.m) THEN Zero
             ELSE Renormalise(b.neg, RoundShift(P, g), b.e + g)

\* numpy rint of a float64 below 2^31 in magnitude, as an integer
Rint(b) ==
    LET h == IF IsZero(b.m) THEN 0
             ELSE IF b.e >= 0 THEN ToInt(MulAdd(b.m, 2 ^ b.e, 0))
             ELSE ToInt(RoundShift(b.m, -b.e))
    IN  IF b.neg THEN -h ELSE h

\* Series.round(2): rint(x * 100) / 100 in float64, inf and nan unchanged;
\* the result is the float64 nearest to a whole number of hundredths
Round2(x) ==
    IF IsFinite(x) THEN Num(Rint(Times100(x)), 100) ELSE x

-----------------------------------------------------------------------------
(* calculate_metrics *)

RequiredColumns == {"impressions", "clicks", "conversions", "spend"}
AllColumns == RequiredColumns \cup {"campaign_name"}

calculate_row(r) ==
    LET revenue == r.conversions * avg_order_value
    IN  [campaign_name |-> r.campaign_name,
         impressions |-> r.impressions,
         clicks |-> r.clicks,
         conversions |-> r.conversions,
         spend |-> r.spend,
         CTR |-> Round2(Times100(Div(r.clicks, r.impressions))),
         CPC |-> Round2(Div(r.spend, r.clicks)),
         CPA |-> Round2(Div(r.spend, r.conversions)),
         conversion_rate |-> Round2(Times100(Div(r.conversions, r.clicks))),
         ROI |-> Round2(Times100(Div(revenue - r.spend, r.spend)))]

calculate_metrics(d) == [i \in 1..Len(d) |-> calculate_row(d[i])]

-----------------------------------------------------------------------------
(* rank_campaigns *)

\* the elements of a set of integers in ascending order
RECURSIVE Ascending(_)
Ascending(S) ==
    IF S = {} THEN <<>>
    ELSE LET lo == CHOOSE x \in S : \A y \in S : x <= y
         IN  <<lo>> \o Ascending(S \ {lo})

\* the orders of the positions S in which the keys never increase
RECURSIVE Descending(_, _)
Descending(keys, S) ==
    IF S = {} THEN {<<>>}
    ELSE UNION {{<<i>> \o rest : rest \in Descending(keys, S \ {i})} :
                  i \in {j \in S : \A l \in S : ~Lt(keys[j], keys[l])}}

\* the orders of the positions S in which the keys never decrease
RECURSIVE NonDecreasing(_, _)
NonDecreasing(keys, S) ==
    IF S = {} THEN {<<>>}
    ELSE UNION {{<<i>> \o rest : rest \in NonDecreasing(keys, S \ {i})} :
                  i \in {j \in S : \A l \in S : ~Lt(keys[l], keys[j])}}

\* sort_values('ROI') without ascending=False
nargsort_ascending(keys) ==
    LET nonnan == {i \in DOMAIN keys : ~IsNaN(keys[i])}
        nans == {i \in DOMAIN keys : IsNaN(keys[i])}
    IN  {p \o Ascending(nans) : p \in NonDecreasing(keys, nonnan)}

\* nargsort(items, kind="quicksort", ascending=False, na_position="last"):
\* the row positions in output order.  The non-nan keys are in descending
\* order and the nan keys follow in input order.  quicksort is not a stable
\* sort, so rows with equal keys come out in any order.
nargsort(keys) ==
    LET nonnan == {i \in DOMAIN keys : ~IsNaN(keys[i])}
        nans == {i \in DOMAIN keys : IsNaN(keys[i])}
    IN  {p \o Ascending(nans) : p \in Descending(keys, nonnan)}

column(d, c) == [i \in 1..Len(d) |-> d[i][c]]

\* df_ranked.insert(0, 'rank', range(1, len(df_ranked) + 1))
insert_rank(row, i) ==
    [c \in DOMAIN row \cup {"rank"} |-> IF c = "rank" THEN i ELSE row[c]]

\* the results rank_campaigns can return for df_metrics = d
rank_campaigns(d) ==
    {[i \in 1..Len(d) |-> insert_rank(d[order[i]], i)] :
        order \in nargsort(column(d, "ROI"))}

-----------------------------------------------------------------------------
(* Series.median and Series.quantile *)

dropna(s) == LET NotNaN(x) == ~IsNaN(x) IN SelectSeq(s, NotNaN)

RECURSIVE InsertSorted(_, _)
InsertSorted(x, s) ==
    IF s = <<>> THEN <<x>>
    ELSE IF Lt(x, Head(s)) THEN <<x>> \o s
    ELSE <<Head(s)>> \o InsertSorted(x, Tail(s))

RECURSIVE SortValues(_)
SortValues(s) ==
    IF s = <<>> THEN <<>> ELSE InsertSorted(Head(s), SortValues(Tail(s)))

\* Series.median(): nan is skipped; the middle value, or the mean of the
\* two middle values
median(s) ==
    LET v == SortValues(dropna(s))
        n == Len(v)
    IN  IF n = 0 THEN NaN
        ELSE IF n % 2 = 1 THEN v[(n + 1) \div 2]
        ELSE Scale(Add(v[n \div 2], v[n \div 2 + 1]), 1, 2)

\* numpy _lerp(a, b, t) with t = g / 4
lerp(a, b, g) ==
    LET diff_b_a == Sub(b, a)
    IN  IF 2 * g >= 4 THEN Sub(b, Scale(diff_b_a, 4 - g, 4))
        ELSE Add(a, Scale(diff_b_a, g, 4))

\* the higher of the two values nearest to the position, no interpolation
quantile75_higher(s) ==
    LET v == SortValues(dropna(s))
        n == Len(v)
        previous == (3 * (n - 1)) \div 4
    IN  IF n = 0 THEN NaN
        ELSE IF previous >= n - 1 THEN v[n]
        ELSE v[previous + 2]

\* Series.quantile(0.75), interpolation='linear': nan is skipped; the value
\* at position 0.75 * (n - 1) of the sorted values (0-based), interpolated
\* between its two neighbours
quantile75(s) ==
    LET v == SortValues(dropna(s))
        n == Len(v)
        previous == (3 * (n - 1)) \div 4
        gamma == (3 * (n - 1)) % 4
    IN  IF n = 0 THEN NaN
        ELSE IF previous >= n - 1 THEN lerp(v[n], v[n], gamma)
        ELSE lerp(v[previous + 1], v[previous + 2], gamma)

-----------------------------------------------------------------------------
(* generate_recommendations *)

Min(a, b) == IF a < b THEN a ELSE b

RECURSIVE SumColumn(_, _)
SumColumn(d, c) ==
    IF d = <<>> THEN 0 ELSE d[1][c] + SumColumn(Tail(d), c)

Names(d) == [i \in 1..Len(d) |-> d[i].campaign_name]

\* df_ranked.head(3)
head(d) == SubSeq(d, 1, Min(HeadTail, Len(d)))

\* the last two rows only
tail_short(d) == SubSeq(d, Len(d) - Min(HeadTail - 1, Len(d)) + 1, Len(d))

\* df_ranked.tail(3)
tail(d) == SubSeq(d, Len(d) - Min(HeadTail, Len(d)) + 1, Len(d))

\* section 2: the findings printed for one row of bottom_3
findings(row, median_ctr, median_conv) ==
    [campaign_name |-> row.campaign_name,
     rank |-> row.rank,
     low_ctr |-> Lt(row.CTR, median_ctr),
     low_conversion |-> Lt(row.conversion_rate, median_conv),
     negative_roi |-> Lt(row.ROI, Num(0, 1))]

underperformers(d) ==
    LET bottom_3 == tail(d)
        median_ctr == median(column(d, "CTR"))
        median_conv == median(column(d, "conversion_rate"))
    IN  [i \in 1..Len(bottom_3) |->
            findings(bottom_3[i], median_ctr, median_conv)]

\* section 3: high CTR but low conversion rate
high_ctr_low_conv(d) ==
    LET q75_ctr == quantile75(column(d, "CTR"))
        median_conv == median(column(d, "conversion_rate"))
        Keep(row) ==
            /\ Gt(row.CTR, q75_ctr)
            /\ Lt(row.conversion_rate, median_conv)
    IN  SelectSeq(d, Keep)

\* section 4: avg_cpa = total_spend / total_conversions on numpy scalars
avg_cpa(d) == Div(SumColumn(d, "spend"), SumColumn(d, "conversions"))

efficient_campaigns(d) ==
    LET avg == avg_cpa(d)
        Keep(row) == Lt(row.CPA, avg)
    IN  SelectSeq(d, Keep)

inefficient_campaigns(d) ==
    LET avg == avg_cpa(d)
        Keep(row) == Gt(row.CPA, avg)
    IN  SelectSeq(d, Keep)

\* section 5: good ROI but low spend
quick_wins(d) ==
    LET median_roi == median(column(d, "ROI"))
        median_spend == median([i \in 1..Len(d) |-> Num(d[i].spend, 1)])
        Keep(row) ==
            /\ Gt(row.ROI, median_roi)
            /\ Lt(Num(row.spend, 1), median_spend)
    IN  SelectSeq(d, Keep)

NoReport ==
    [sections |-> 0, top |-> <<>>, under |-> <<>>, high |-> <<>>,
     high_printed |-> FALSE, total_spend |-> 0, total_conversions |-> 0,
     avg_cpa |-> NaN, efficient |-> <<>>, inefficient |-> <<>>,
     quick |-> <<>>, quick_message |-> "none"]

\* what has been printed when line 194 is reached: sections 1 to 3
report_before_budget(d) ==
    LET high == high_ctr_low_conv(d)
    IN  [NoReport EXCEPT
            !.sections = 3,
            !.top = Names(head(d)),
            !.under = underperformers(d),
            !.high = Names(high),
            !.high_printed = (high # <<>>)]

\* what has been printed when generate_recommendations returns
full_report(d) ==
    LET quick == quick_wins(d)
    IN  [report_before_budget(d) EXCEPT
            !.sections = 5,
            !.total_spend = SumColumn(d, "spend"),
            !.total_conversions = SumColumn(d, "conversions"),
            !.avg_cpa = avg_cpa(d),
            !.efficient = Names(efficient_campaigns(d)),
            !.inefficient = Names(inefficient_campaigns(d)),
            !.quick = Names(quick),
            !.quick_message =
                IF quick # <<>> THEN "scale up" ELSE "no quick wins"]

\* read_csv gives the columns of a table without rows the dtype object: their
\* sum() is the Python int 0, and 0 / 0 on Python ints raises
\* ZeroDivisionError.  Columns with rows are int64 / float64 and their sums
\* are numpy scalars, whose division by zero gives inf or nan.
division_raises(d) == Len(d) = 0

-----------------------------------------------------------------------------
(* The input file *)

\* field values of the tables of Spec: campaigns whose counters are all
\* positive, in tables of up to MaxRows rows; 4 conversions for a spend of
\* 200 give an ROI of exactly 0.0
Impressions == {1000}
Clicks == {50, 100}
Conversions == {1, 4, 10}
Spend == {200}

\* field values of the tables of SpecBudget: campaigns that differ in spend
\* too, in tables of up to MaxRows rows
BudgetConversions == {1, 10}
BudgetSpend == {200, 300}

\* field values of the tables of SpecRound: campaigns with a metric that
\* lies halfway between two hundredths (23 / 40 = 0.575, 100 * 23 / 160 =
\* 14.375, 300 / 96 = 3.125), in tables of up to MaxWideRows rows
RoundImpressions == {160, 1000}
RoundClicks == {23, 40, 50, 96}
RoundConversions == {1, 5}
RoundSpend == {23, 300}

\* field values of the tables of SpecWide: counters that may be zero, in
\* tables of up to MaxWideRows rows
WideImpressions == {0, 1000}
WideClicks == {0, 50}
WideConversions == {0, 1, 5}
WideSpend == {0, 300}

\* the tables of at most maxN rows; campaign_name is the row's position in
\* the file, so that names are unique
Tables(I, C, V, S, maxN) ==
    UNION {
        {[i \in 1..n |->
             [campaign_name |-> i, impressions |-> t[i].impressions,
              clicks |-> t[i].clicks, conversions |-> t[i].conversions,
              spend |-> t[i].spend]] :
            t \in [1..n -> [impressions : I, clicks : C, conversions : V,
                            spend : S]]} :
        n \in 0..maxN}

\* status "missing": no such file; "unreadable": read_csv raises (an empty
\* file, a parse error, no permission); "ok": a table, possibly without one
\* of the columns
Files(I, C, V, S, maxN) ==
    {[status |-> "ok", columns |-> AllColumns, rows |-> t] :
        t \in Tables(I, C, V, S, maxN)}
    \cup {[status |-> st, columns |-> {}, rows |-> <<>>] :
        st \in {"missing", "unreadable"}}
    \cup {[status |-> "ok", columns |-> AllColumns \ {c}, rows |-> t] :
        c \in AllColumns, t \in Tables(I, C, V, S, 1)}

-----------------------------------------------------------------------------
(* main *)

InitWith(files) ==
    /\ file \in files
    /\ pc = "load"
    /\ df = <<>>
    /\ df_metrics = <<>>
    /\ df_ranked = <<>>
    /\ report = NoReport
    /\ chart = FALSE
    /\ results_file = FALSE
    /\ err = "none"
    /\ entered = {}

Init == InitWith(Files(Impressions, Clicks, Conversions, Spend, MaxRows))

InitBudget ==
    InitWith(Files(Impressions, Clicks, BudgetConversions, BudgetSpend,
                   MaxRows))

InitRound ==
    InitWith(Files(RoundImpressions, RoundClicks, RoundConversions,
                   RoundSpend, MaxWideRows))

InitWide ==
    InitWith(Files(WideImpressions, WideClicks, WideConversions, WideSpend,
                   MaxWideRows))

\* load_campaign_data that returns an empty table when read_csv raises
load_campaign_data_lenient ==
    /\ pc = "load"
    /\ entered' = entered \cup {"load_campaign_data"}
    /\ df' = file.rows
    /\ pc' = "calc"
    /\ UNCHANGED <<file, df_metrics, df_ranked, report, chart, results_file,
                   err>>

\* df = load_campaign_data('sample_data.csv')
load_campaign_data ==
    /\ pc = "load"
    /\ entered' = entered \cup {"load_campaign_data"}
    /\ \/ /\ file.status = "ok"
          /\ df' = file.rows
          /\ pc' = "calc"
          /\ err' = err
       \/ /\ file.status # "ok"
          /\ df' = df
          /\ pc' = "exited"
          /\ err' = "SystemExit(1)"
    /\ UNCHANGED <<file, df_metrics, df_ranked, report, chart, results_file>>

\* df_metrics = calculate_metrics(df)
CalculateMetrics ==
    /\ pc = "calc"
    /\ entered' = entered \cup {"calculate_metrics"}
    /\ \/ /\ RequiredColumns \subseteq file.columns
          /\ df_metrics' = calculate_metrics(df)
          /\ pc' = "rank"
          /\ err' = err
       \/ /\ ~(RequiredColumns \subseteq file.columns)
          /\ df_metrics' = df_metrics
          /\ pc' = "crashed"
          /\ err' = "KeyError"
    /\ UNCHANGED <<file, df, df_ranked, report, chart, results_file>>

\* df_ranked = rank_campaigns(df_metrics)
RankCampaigns ==
    /\ pc = "rank"
    /\ entered' = entered \cup {"rank_campaigns"}
    /\ df_ranked' \in rank_campaigns(df_metrics)
    /\ pc' = "summary"
    /\ UNCHANGED <<file, df, df_metrics, report, chart, results_file, err>>

\* print_performance_summary(df_ranked)
PrintPerformanceSummary ==
    /\ pc = "summary"
    /\ entered' = entered \cup {"print_performance_summary"}
    /\ \/ /\ "campaign_name" \in file.columns
          /\ pc' = "recs"
          /\ err' = err
       \/ /\ "campaign_name" \notin file.columns
          /\ pc' = "crashed"
          /\ err' = "KeyError"
    /\ UNCHANGED <<file, df, df_metrics, df_ranked, report, chart,
                   results_file>>

\* generate_recommendations(df_ranked)
GenerateRecommendations ==
    /\ pc = "recs"
    /\ entered' = entered \cup {"generate_recommendations"}
    /\ \/ /\ ~division_raises(df_ranked)
          /\ report' = full_report(df_ranked)
          /\ pc' = "viz"
          /\ err' = err
       \/ /\ division_raises(df_ranked)
          /\ report' = report_before_budget(df_ranked)
          /\ pc' = "crashed"
          /\ err' = "ZeroDivisionError"
    /\ UNCHANGED <<file, df, df_metrics, df_ranked, chart, results_file>>

\* viz_file = create_visualization(df_ranked): matplotlib and the file
\* system decide whether the png is written or an exception ends main
CreateVisualization ==
    /\ pc = "viz"
    /\ entered' = entered \cup {"create_visualization"}
    /\ \/ /\ chart' = TRUE
          /\ pc' = "save"
          /\ err' = err
       \/ /\ chart' = chart
          /\ pc' = "crashed"
          /\ err' = "Exception"
    /\ UNCHANGED <<file, df, df_metrics, df_ranked, report, results_file>>

\* df_ranked.to_csv(output_csv, index=False): written, or OSError
SaveReport ==
    /\ pc = "save"
    /\ entered' = entered \cup {"to_csv"}
    /\ \/ /\ results_file' = TRUE
          /\ pc' = "done"
          /\ err' = err
       \/ /\ results_file' = results_file
          /\ pc' = "crashed"
          /\ err' = "OSError"
    /\ UNCHANGED <<file, df, df_metrics, df_ranked, report, chart>>

Next ==
    \/ load_campaign_data
    \/ CalculateMetrics
    \/ RankCampaigns
    \/ PrintPerformanceSummary
    \/ GenerateRecommendations
    \/ CreateVisualization
    \/ SaveReport

Spec == Init /\ [][Next]_vars

SpecBudget == InitBudget /\ [][Next]_vars

SpecRound == InitRound /\ [][Next]_vars

SpecWide == InitWide /\ [][Next]_vars

-----------------------------------------------------------------------------
(* Definitions used to state the properties *)

Ranked == "rank_campaigns" \in entered

GoodFile == file.status = "ok" /\ file.columns = AllColumns

InputError ==
    file.status # "ok" \/ ~(RequiredColumns \subseteq file.columns)

\* the row as it was in df_metrics, without its rank
WithoutRank(row) == [c \in DOMAIN row \ {"rank"} |-> row[c]]

\* h is p / q rounded to an integer with ties to even
IsHalfEvenOf(h, p, q) ==
    /\ 2 * Abs(h * q - p) <= q
    /\ 2 * Abs(h * q - p) = q => h % 2 = 0

\* the k-th smallest of a sequence of integers
OrderStat(s, k) ==
    CHOOSE v \in {s[i] : i \in DOMAIN s} :
        /\ Cardinality({i \in DOMAIN s : s[i] < v}) < k
        /\ Cardinality({i \in DOMAIN s : s[i] <= v}) >= k

\* twice the median of a non-empty sequence of integers
TwiceMedian(s) ==
    OrderStat(s, (Len(s) + 1) \div 2) + OrderStat(s, Len(s) \div 2 + 1)

\* four times the 75th percentile (linear interpolation) of a non-empty
\* sequence of integers
FourTimesQ75(s) ==
    LET h == 3 * (Len(s) - 1)
        lo == h \div 4
        g == h % 4
    IN  IF g = 0 THEN 4 * OrderStat(s, lo + 1)
        ELSE (4 - g) * OrderStat(s, lo + 1) + g * OrderStat(s, lo + 2)

\* a column of finite metric values, in hundredths
Hundredths(d, c) == [i \in 1..Len(d) |-> d[i][c].n]

Finite(d, c) == \A i \in 1..Len(d) : IsNum(d[i][c]) /\ d[i][c].d = 100

\* the names of the rows of d at the positions Q, in the order of d
NamesAt(d, Q) ==
    [j \in 1..Cardinality(Q) |-> d[Ascending(Q)[j]].campaign_name]

-----------------------------------------------------------------------------
(* C1: for a table of N campaigns with defined ROI values, rank_campaigns
   returns exactly N records that are a permutation of the input records,
   ordered by ROI descending, and the rank column holds 1..N in output
   order, also when ROI values tie. *)
C1_RankedIsSortedPermutation ==
    (Ranked /\ \A i \in 1..Len(df_metrics) : ~IsNaN(df_metrics[i].ROI)) =>
        /\ Len(df_ranked) = Len(df_metrics)
        /\ \A i \in 1..Len(df_metrics) :
               Cardinality({j \in 1..Len(df_ranked) :
                              WithoutRank(df_ranked[j]) = df_metrics[i]}) = 1
        /\ \A j \in 1..(Len(df_ranked) - 1) :
               \/ Gt(df_ranked[j].ROI, df_ranked[j + 1].ROI)
               \/ Eq(df_ranked[j].ROI, df_ranked[j + 1].ROI)
        /\ \A j \in 1..Len(df_ranked) : df_ranked[j].rank = j

C1_Witness ==
    /\ Ranked
    /\ Len(df_ranked) = MaxRows
    /\ \E i, j \in 1..Len(df_ranked) :
           i # j /\ Eq(df_ranked[i].ROI, df_ranked[j].ROI)
    /\ \E i, j \in 1..Len(df_ranked) :
           Gt(df_ranked[i].ROI, df_ranked[j].ROI)
    /\ df_ranked[1].campaign_name # 1

(* C2: rank_campaigns is a stable sort: of two input records with equal
   ROI, the one earlier in the input gets the smaller rank. *)
C2_StableSort ==
    Ranked =>
        \A i, j \in 1..Len(df_ranked) :
            (/\ Eq(df_ranked[i].ROI, df_ranked[j].ROI)
             /\ df_ranked[i].campaign_name < df_ranked[j].campaign_name)
            => df_ranked[i].rank < df_ranked[j].rank

(* C3: for a record whose four counters are all positive, CTR, CPC, CPA,
   conversion_rate and ROI are the formulas' values rounded to 2 decimals
   with ties to even; (1000, 50, 1, 300) gives 5.0, 6.0, 300.0, 2.0,
   -83.33. *)
C3_MetricsRoundedHalfEven ==
    \A i \in 1..Len(df_metrics) :
        LET r == df_metrics[i]
        IN  (r.impressions > 0 /\ r.clicks > 0 /\ r.conversions > 0
             /\ r.spend > 0) =>
                /\ \A c \in {"CTR", "CPC", "CPA", "conversion_rate", "ROI"} :
                       IsNum(r[c]) /\ r[c].d = 100
                /\ IsHalfEvenOf(r.CTR.n, 10000 * r.clicks, r.impressions)
                /\ IsHalfEvenOf(r.CPC.n, 100 * r.spend, r.clicks)
                /\ IsHalfEvenOf(r.CPA.n, 100 * r.spend, r.conversions)
                /\ IsHalfEvenOf(r.conversion_rate.n, 10000 * r.conversions,
                                r.clicks)
                /\ IsHalfEvenOf(r.ROI.n,
                                10000 * (r.conversions * 50 - r.spend),
                                r.spend)
                /\ (/\ r.impressions = 1000
                    /\ r.clicks = 50
                    /\ r.conversions = 1
                    /\ r.spend = 300) =>
                       /\ r.CTR.n = 500
                       /\ r.CPC.n = 600
                       /\ r.CPA.n = 30000
                       /\ r.conversion_rate.n = 200
                       /\ r.ROI.n = -8333

\* h is p / q rounded to an integer, to either neighbour at a tie
IsNearestOf(h, p, q) == 2 * Abs(h * q - p) <= q

\* what calculate_metrics does guarantee: every metric of a record with
\* positive counters is a nearest hundredth of its formula, so within 0.005
\* of it and equal to the round-half-to-even value wherever the formula's
\* value is not a tie; (1000, 50, 1, 300) gives 5.0, 6.0, 300.0, 2.0, -83.33
MetricsRoundedToNearest ==
    \A i \in 1..Len(df_metrics) :
        LET r == df_metrics[i]
        IN  (r.impressions > 0 /\ r.clicks > 0 /\ r.conversions > 0
             /\ r.spend > 0) =>
                /\ \A c \in {"CTR", "CPC", "CPA", "conversion_rate", "ROI"} :
                       IsNum(r[c]) /\ r[c].d = 100
                /\ IsNearestOf(r.CTR.n, 10000 * r.clicks, r.impressions)
                /\ IsNearestOf(r.CPC.n, 100 * r.spend, r.clicks)
                /\ IsNearestOf(r.CPA.n, 100 * r.spend, r.conversions)
                /\ IsNearestOf(r.conversion_rate.n, 10000 * r.conversions,
                               r.clicks)
                /\ IsNearestOf(r.ROI.n,
                               10000 * (r.conversions * 50 - r.spend),
                               r.spend)
                /\ (/\ r.impressions = 1000
                    /\ r.clicks = 50
                    /\ r.conversions = 1
                    /\ r.spend = 300) =>
                       /\ r.CTR.n = 500
                       /\ r.CPC.n = 600
                       /\ r.CPA.n = 30000
                       /\ r.conversion_rate.n = 200
                       /\ r.ROI.n = -8333

\* the three kinds of tie: 300 / 96 = 3.125 is a float64 and goes to the even
\* 3.12; 23 / 40 = 0.575 is not, the float64 quotient times 100 is below
\* 57.5 and the CPC is the odd 0.57; 100 * 23 / 160 = 14.375 is a float64 but
\* the product of the float64 quotient by 100 is below it and the CTR is the
\* odd 14.37
RoundingTiesReached ==
    /\ Len(df_metrics) = 2
    /\ df_metrics[1].clicks = 96
    /\ df_metrics[1].spend = 300
    /\ df_metrics[1].CPC = Num(312, 100)
    /\ df_metrics[2].impressions = 160
    /\ df_metrics[2].clicks = 23
    /\ df_metrics[2].CTR = Num(1437, 100)

\* the record (1000, 40, 1, 23), whose CPC 0.575 comes out as 0.57, next to
\* the spec's record B
OddTieReached ==
    /\ Len(df_metrics) = 2
    /\ df_metrics[1] = [campaign_name |-> 1, impressions |-> 1000,
                        clicks |-> 40, conversions |-> 1, spend |-> 23,
                        CTR |-> Num(400, 100), CPC |-> Num(57, 100),
                        CPA |-> Num(2300, 100),
                        conversion_rate |-> Num(250, 100),
                        ROI |-> Num(11739, 100)]
    /\ df_metrics[2].clicks = 50
    /\ df_metrics[2].spend = 300
    /\ df_metrics[2].ROI = Num(-8333, 100)

(* C4 as claimed: a record with clicks = 0 has CTR, CPC and conversion_rate
   undefined, nothing raises, the pipeline continues through ranking and
   recommendations, and the record is ranked after every record whose ROI
   is defined. *)
C4_ZeroClickUndefinedAndLast ==
    /\ (GoodFile /\ \E i \in 1..Len(file.rows) : file.rows[i].clicks = 0) =>
           /\ pc # "exited"
           /\ pc = "crashed" => "create_visualization" \in entered
    /\ (GoodFile /\ Ranked) =>
           \A i \in 1..Len(df_ranked) :
               df_ranked[i].clicks = 0 =>
                   /\ ~IsNum(df_ranked[i].CTR)
                   /\ ~IsNum(df_ranked[i].CPC)
                   /\ ~IsNum(df_ranked[i].conversion_rate)
                   /\ \A j \in 1..Len(df_ranked) :
                          (j # i /\ ~IsNaN(df_ranked[j].ROI)) => j < i

(* C4 as amended: a record with clicks = 0 has CPC and conversion_rate
   undefined (inf, or nan for 0/0) while its CTR is 0.0 (nan only when
   impressions = 0 too); nothing raises and the pipeline continues through
   ranking and recommendations; the record is ranked by its ROI, which does
   not depend on clicks: after every record with a greater ROI, before every
   record with a smaller one, and after every record with a defined ROI
   exactly when its own ROI is nan (spend = 0 and conversions = 0). *)
C4_ZeroClickRankedByROI ==
    /\ (GoodFile /\ \E i \in 1..Len(file.rows) : file.rows[i].clicks = 0) =>
           /\ pc # "exited"
           /\ pc = "crashed" =>
                  "create_visualization" \in entered /\ report.sections = 5
    /\ \A i \in 1..Len(df_metrics) :
           LET r == df_metrics[i]
           IN  r.clicks = 0 =>
                   /\ r.CTR = IF r.impressions > 0 THEN Num(0, 100) ELSE NaN
                   /\ r.CPC = IF r.spend > 0 THEN Inf ELSE NaN
                   /\ r.conversion_rate =
                          IF r.conversions > 0 THEN Inf ELSE NaN
                   /\ IsNaN(r.ROI) <=> (r.spend = 0 /\ r.conversions = 0)
                   /\ r.spend > 0 =>
                          /\ IsNum(r.ROI)
                          /\ IsNearestOf(r.ROI.n,
                                 10000 * (r.conversions * 50 - r.spend),
                                 r.spend)
    /\ Ranked =>
           \A i, j \in 1..Len(df_ranked) :
               df_ranked[i].clicks = 0 =>
                   /\ Gt(df_ranked[j].ROI, df_ranked[i].ROI) => j < i
                   /\ Lt(df_ranked[j].ROI, df_ranked[i].ROI) => j > i
                   /\ (IsNaN(df_ranked[i].ROI) /\ ~IsNaN(df_ranked[j].ROI))
                          => j < i
                   /\ (~IsNaN(df_ranked[i].ROI) /\ IsNaN(df_ranked[j].ROI))
                          => j > i

\* a zero-click record with ROI -16.67 is ranked first, before a record with
\* clicks whose ROI is -100.0, and the recommendations have been printed
C4_Witness ==
    /\ report.sections = 5
    /\ Len(df_ranked) = 2
    /\ df_ranked[1].clicks = 0
    /\ df_ranked[1].CTR = Num(0, 100)
    /\ df_ranked[1].CPC = Inf
    /\ df_ranked[1].ROI = Num(-1667, 100)
    /\ df_ranked[2].clicks > 0
    /\ df_ranked[2].ROI = Num(-10000, 100)

(* C5 as claimed: when the input is missing or unreadable, or one of the
   columns impressions, clicks, conversions, spend is missing, main aborts
   before calculate_metrics starts and nothing is produced: no ranking, no
   recommendations, no chart, no results file. *)
C5_AbortsBeforeMetricsStart ==
    InputError =>
        /\ "calculate_metrics" \notin entered
        /\ "rank_campaigns" \notin entered
        /\ df_ranked = <<>>
        /\ report = NoReport
        /\ ~chart
        /\ ~results_file

(* C5 as amended: when the input is missing or unreadable, main exits in
   load_campaign_data, before calculate_metrics starts; when one of the
   columns impressions, clicks, conversions, spend is missing,
   calculate_metrics starts and raises KeyError before it returns; in both
   cases nothing is produced: no metrics table, no ranking, no
   recommendations, no chart, no results file. *)
C5_AbortsBeforeMetricsReturn ==
    InputError =>
        /\ file.status # "ok" =>
               /\ "calculate_metrics" \notin entered
               /\ pc \in {"load", "exited"}
        /\ file.status = "ok" =>
               /\ pc \in {"load", "calc", "crashed"}
               /\ pc = "crashed" =>
                      err = "KeyError" /\ "calculate_metrics" \in entered
        /\ entered \subseteq {"load_campaign_data", "calculate_metrics"}
        /\ df_metrics = <<>>
        /\ df_ranked = <<>>
        /\ report = NoReport
        /\ ~chart
        /\ ~results_file

C5_Witness ==
    /\ file.status = "ok"
    /\ file.columns = AllColumns \ {"spend"}
    /\ Len(file.rows) = 1
    /\ pc = "crashed"
    /\ err = "KeyError"
    /\ "calculate_metrics" \in entered

(* C6: for an input of zero records, rank_campaigns returns an empty
   sequence and generate_recommendations completes without error, each of
   its five sections reporting no data. *)
C6_EmptyInputCompletes ==
    (GoodFile /\ file.rows = <<>>) =>
        /\ Ranked => df_ranked = <<>>
        /\ err \notin {"KeyError", "ZeroDivisionError"}
        /\ "generate_recommendations" \in entered =>
               /\ report.sections = 5
               /\ report.top = <<>>
               /\ report.under = <<>>
               /\ report.high = <<>>
               /\ report.efficient = <<>>
               /\ report.inefficient = <<>>
               /\ report.quick = <<>>

(* C7: the quick-wins section lists exactly the ranked records whose ROI is
   strictly greater than the median ROI of the full set and whose spend is
   strictly less than the median spend of the full set; a record whose ROI
   or spend equals the median is not listed; when no record qualifies the
   section says that there are no quick wins. *)
C7_QuickWinsStrictlyBeyondMedians ==
    (GoodFile /\ "generate_recommendations" \in entered) =>
        LET roi == Hundredths(df_ranked, "ROI")
            spend == [i \in 1..Len(df_ranked) |-> df_ranked[i].spend]
            Q == {i \in 1..Len(df_ranked) :
                    /\ 2 * roi[i] > TwiceMedian(roi)
                    /\ 2 * spend[i] < TwiceMedian(spend)}
        IN  /\ Finite(df_ranked, "ROI")
            /\ report.quick = NamesAt(df_ranked, Q)
            /\ \A i \in 1..Len(df_ranked) :
                   (\/ 2 * roi[i] = TwiceMedian(roi)
                    \/ 2 * spend[i] = TwiceMedian(spend))
                   => \A j \in 1..Len(report.quick) :
                          report.quick[j] # df_ranked[i].campaign_name
            /\ Q = {} => report.quick_message = "no quick wins"
            /\ Q # {} => report.quick_message = "scale up"

\* the same, for the runs in which section 5 is reached: it holds of every
\* table with at least one row
QuickWinsWhenReached ==
    report.sections = 5 => C7_QuickWinsStrictlyBeyondMedians

\* four records: one is a quick win, and one whose ROI is above the median
\* is not listed because its spend equals the median spend
QuickWinsReached ==
    /\ report.sections = 5
    /\ Len(df_ranked) = MaxRows
    /\ Len(report.quick) = 1
    /\ \E i \in 1..Len(df_ranked) :
           /\ 2 * df_ranked[i].spend
                  = TwiceMedian([k \in 1..Len(df_ranked) |->
                                    df_ranked[k].spend])
           /\ 2 * df_ranked[i].ROI.n > TwiceMedian(Hundredths(df_ranked, "ROI"))

(* C8: in the budget section, average CPA = total spend / total
   conversions; "above average" is exactly the records with CPA < average
   CPA, "below average" exactly those with CPA > average CPA, the two are
   disjoint and a record whose CPA equals the average is in neither; when
   total conversions is zero the average is undefined and the section still
   completes without crashing. *)
C8_BudgetSectionCompletes ==
    (GoodFile /\ "generate_recommendations" \in entered) =>
        LET total_spend == SumColumn(df_ranked, "spend")
            total_conversions == SumColumn(df_ranked, "conversions")
            Above == {i \in 1..Len(df_ranked) :
                        Lt(df_ranked[i].CPA, report.avg_cpa)}
            Below == {i \in 1..Len(df_ranked) :
                        Gt(df_ranked[i].CPA, report.avg_cpa)}
        IN  /\ report.sections = 5
            /\ err # "ZeroDivisionError"
            /\ total_conversions > 0 =>
                   Eq(report.avg_cpa, Num(total_spend, total_conversions))
            /\ total_conversions = 0 => ~IsNum(report.avg_cpa)
            /\ report.efficient = NamesAt(df_ranked, Above)
            /\ report.inefficient = NamesAt(df_ranked, Below)
            /\ Above \cap Below = {}
            /\ \A i \in 1..Len(df_ranked) :
                   Eq(df_ranked[i].CPA, report.avg_cpa)
                       => i \notin Above \cup Below

\* the same, for the tables with at least one row
BudgetSectionOfNonEmptyTable ==
    file.rows # <<>> => C8_BudgetSectionCompletes

(* C9: the underperformers section covers exactly the last min(3, N)
   records by rank and the top-performers section the first min(3, N),
   overlapping when the input is small; for each underperformer the three
   findings are decided independently: low CTR iff its CTR < the median CTR
   of the whole ranked set, low conversion iff its conversion_rate < the
   median conversion_rate of the whole set, negative ROI iff its ROI < 0. *)
C9_UnderperformersFindings ==
    report.sections >= 3 =>
        LET n == Len(df_ranked)
            k == IF n < 3 THEN n ELSE 3
            ctr == Hundredths(df_ranked, "CTR")
            conv == Hundredths(df_ranked, "conversion_rate")
            median_ctr2 == TwiceMedian(ctr)
            median_conv2 == TwiceMedian(conv)
        IN  /\ Finite(df_ranked, "CTR")
            /\ Finite(df_ranked, "conversion_rate")
            /\ Finite(df_ranked, "ROI")
            /\ Len(report.top) = k
            /\ \A j \in 1..k : report.top[j] = df_ranked[j].campaign_name
            /\ Len(report.under) = k
            /\ \A j \in 1..k :
                   LET row == df_ranked[n - k + j]
                       u == report.under[j]
                   IN  /\ u.rank = n - k + j
                       /\ u.campaign_name = row.campaign_name
                       /\ u.low_ctr <=> 2 * row.CTR.n < median_ctr2
                       /\ u.low_conversion <=>
                              2 * row.conversion_rate.n < median_conv2
                       /\ u.negative_roi <=> row.ROI.n < 0

\* four records: ranks 2 and 3 are in both sections, one underperformer has
\* all three findings and another, whose ROI is exactly 0.0, has none
C9_Witness ==
    /\ report.sections = 5
    /\ Len(df_ranked) = MaxRows
    /\ report.top[2] = report.under[1].campaign_name
    /\ report.under[1].rank = 2
    /\ \E j \in 1..Len(report.under) :
           /\ report.under[j].low_ctr
           /\ report.under[j].low_conversion
           /\ report.under[j].negative_roi
    /\ \E j \in 1..Len(report.under) :
           /\ ~report.under[j].low_ctr
           /\ ~report.under[j].low_conversion
           /\ ~report.under[j].negative_roi
           /\ df_ranked[report.under[j].rank].ROI = Num(0, 100)

\* median and 75th percentile of [1, 2, 3, 4] and of [1, 2, 3], in any order
\* of the values
InterpolationExamples ==
    LET v4 == <<Num(400, 100), Num(100, 100), Num(300, 100), Num(200, 100)>>
        v3 == <<Num(300, 100), Num(100, 100), Num(200, 100)>>
    IN  /\ Eq(median(v4), Num(250, 100))
        /\ Eq(quantile75(v4), Num(325, 100))
        /\ Eq(median(v3), Num(200, 100))
        /\ Eq(quantile75(v3), Num(250, 100))

(* C10: the high-traffic/low-conversion section lists exactly the records
   of the whole ranked set whose CTR is strictly greater than the 75th
   percentile of all CTRs and whose conversion_rate is strictly less than
   the median of all conversion_rates, both by linear interpolation over
   the sorted values, for even and odd counts; for [1, 2, 3, 4] the median
   is 2.5 and the 75th percentile 3.25. *)
C10_HighTrafficLowConversion ==
    /\ report.sections >= 3 =>
           LET ctr == Hundredths(df_ranked, "CTR")
               conv == Hundredths(df_ranked, "conversion_rate")
               q75_ctr4 == FourTimesQ75(ctr)
               median_conv2 == TwiceMedian(conv)
               Q == {i \in 1..Len(df_ranked) :
                       /\ 4 * ctr[i] > q75_ctr4
                       /\ 2 * conv[i] < median_conv2}
           IN  /\ Finite(df_ranked, "CTR")
               /\ Finite(df_ranked, "conversion_rate")
               /\ report.high = NamesAt(df_ranked, Q)
               /\ report.high_printed <=> Q # {}
    /\ InterpolationExamples

\* four records: one is listed, and one whose conversion_rate is below the
\* median is not listed because its CTR is not above the 75th percentile
C10_Witness ==
    /\ report.sections = 5
    /\ Len(df_ranked) = MaxRows
    /\ Len(report.high) = 1
    /\ \E i \in 1..Len(df_ranked) :
           /\ 4 * df_ranked[i].CTR.n
                  <= FourTimesQ75(Hundredths(df_ranked, "CTR"))
           /\ 2 * df_ranked[i].conversion_rate.n
                  < TwiceMedian(Hundredths(df_ranked, "conversion_rate"))

====
